---- MODULE Spec2Model ----
(***************************************************************************)
(* Gym management application: the per-account gym document (GymManager)   *)
(* and the shared user store with its subscription gate (AuthManager).     *)
(*                                                                         *)
(* Python values are modelled with their type: the string "7" and the      *)
(* integer 7 are different values, as they are for `in` on a dict.  A      *)
(* date string 'YYYY-MM-DD' is modelled by its day number, a timestamp     *)
(* 'YYYY-MM-DD HH:MM:SS' and datetime.now() by a tick number, with         *)
(* TicksPerDay ticks in a day (tick 0 of a day is midnight).  A dict whose  *)
(* entries the program iterates over is an insertion-ordered sequence of   *)
(* key/value entries; the fees dict, which the program only reads by key,  *)
(* is a function from its keys (its entry order is not kept).              *)
(*                                                                         *)
(* The routes of the web layer are modelled with one browser session, the  *)
(* gym files of the accounts on the disk, and before_request's             *)
(* check_subscription run ahead of every handler.  A username of the web    *)
(* layer is the sequence of its characters, so that the file name           *)
(* get_user_data_file derives from it is computed as the code computes it.  *)
(***************************************************************************)
EXTENDS Integers, Sequences, FiniteSets, TLC

VARIABLES file, data, last, issued, users, now, session, disk, reqs

vars == <<file, data, last, issued, users, now, session, disk, reqs>>

\* ------------------------------------------------------------ bounds
\* Largest member id the counter hands out in the model.
MaxId == 2
\* Largest number of classes in a document.
MaxClasses == 2
\* Last tick of the model's clock.
MaxNow == 4
\* Largest number of payment records kept per account in the model.
MaxPayments == 2
\* Largest number of add_expense calls in a run of the model.
MaxExpenses == 3
\* Largest number of accounts in the user store of the web model.
MaxUsers == 2
\* Largest number of visits logged in a document.
MaxVisits == 2
\* Largest number of entries (members, fee records, visits, classes,
\* attendees, expenses) of a document of the store model.
MaxDocSize == 3

\* ------------------------------------------------------------ Python values
None == [t |-> "none", v |-> 0]
PyStr(n) == [t |-> "str", v |-> n]
PyInt(n) == [t |-> "int", v |-> n]
Date(d) == [t |-> "date", v |-> d]
Month(m) == [t |-> "month", v |-> m]
Stamp(n) == [t |-> "stamp", v |-> n]
Text(s) == [t |-> "text", v |-> s]
IsNone(x) == x.t = "none"

\* str(x) of an integer or a string; int(x) of a decimal string or an integer.
str(x) == PyStr(x.v)
int(x) == PyInt(x.v)

\* Truthiness of an optional string argument (`if not joined_date`, `notes or ''`).
EmptyStr == [t |-> "str", v |-> 0]
Truthy(x) == x # None /\ x # EmptyStr

\* ------------------------------------------------------------ dict
DictHas(d, k) == \E i \in 1..Len(d) : d[i].k = k
DictGet(d, k) == d[CHOOSE i \in 1..Len(d) : d[i].k = k].v
DictSet(d, k, val) ==
    IF DictHas(d, k)
    THEN [i \in 1..Len(d) |-> IF d[i].k = k THEN [k |-> k, v |-> val] ELSE d[i]]
    ELSE Append(d, [k |-> k, v |-> val])
DictDelTest(e, k) == e.k # k
DictDel(d, k) == SelectSeq(d, LAMBDA e : DictDelTest(e, k))
DictKeys(d) == {d[i].k : i \in 1..Len(d)}
DictValues(d) == [i \in 1..Len(d) |-> d[i].v]

\* A dict that is only read by key.
MapHas(f, k) == k \in DOMAIN f
MapSet(f, k, val) == [x \in (DOMAIN f) \cup {k} |-> IF x = k THEN val ELSE f[x]]
MapDel(f, k) == [x \in (DOMAIN f) \ {k} |-> f[x]]

\* ------------------------------------------------------------ clock
TicksPerDay == 2
TrialDays == 3
\* datetime.now().strftime('%Y-%m-%d'), ...('%Y-%m-%d %H:%M:%S')
Today == Date(now \div TicksPerDay)
NowStamp == Stamp(now)

\* ------------------------------------------------------------ document
\* gym_details as _create_empty_data and get_gym_details write it, and a
\* gym_details dict with no key yet.
DefaultGymDetails ==
    [name |-> "Gym Manager", has_logo |-> TRUE, logo |-> None,
     has_currency |-> TRUE, currency |-> "$"]
EmptyGymDetails ==
    [name |-> "", has_logo |-> FALSE, logo |-> None,
     has_currency |-> FALSE, currency |-> ""]

_create_empty_data ==
    [members |-> <<>>, fees |-> <<>>, expenses |-> <<>>, next_member_id |-> 1,
     has_attendance |-> FALSE, attendance |-> <<>>,
     has_classes |-> FALSE, classes |-> <<>>,
     has_gym_details |-> TRUE, gym_details |-> DefaultGymDetails]

NoFile == [exists |-> FALSE, doc |-> _create_empty_data]

\* json.dump writes every dict key as a string; values keep their type.
JsonKeys(d) == [i \in 1..Len(d) |-> [k |-> str(d[i].k), v |-> d[i].v]]
JsonMapKeys(f) ==
    [x \in {str(k) : k \in DOMAIN f} |-> f[CHOOSE k \in DOMAIN f : str(k) = x]]
json_dump(d) ==
    [d EXCEPT !.members = JsonKeys(@), !.fees = JsonMapKeys(@),
              !.attendance = JsonKeys(@), !.classes = JsonKeys(@)]

save_data(d) == [exists |-> TRUE, doc |-> json_dump(d)]
load_data(f) == IF f.exists THEN f.doc ELSE _create_empty_data

\* The result of a store operation: the document after it, the value returned,
\* and whether save_data ran.
Result(d, ret, saved) == [data |-> d, ret |-> ret, saved |-> saved]

reset_data(d) == Result(_create_empty_data, TRUE, TRUE)

\* ------------------------------------------------------------ gym details
\* Variant: the missing defaults filled in, the document not written.
get_gym_details_unsaved(d) ==
    LET d1 == IF ~d.has_gym_details
              THEN [d EXCEPT !.has_gym_details = TRUE,
                             !.gym_details = DefaultGymDetails]
              ELSE d
        d2 == IF ~d1.gym_details.has_currency
              THEN [d1 EXCEPT !.gym_details.has_currency = TRUE,
                              !.gym_details.currency = "$"]
              ELSE d1
    IN  Result(d2, d2.gym_details, FALSE)

get_gym_details(d) ==
    LET d1 == IF ~d.has_gym_details
              THEN [d EXCEPT !.has_gym_details = TRUE,
                             !.gym_details = DefaultGymDetails]
              ELSE d
        d2 == IF ~d1.gym_details.has_currency
              THEN [d1 EXCEPT !.gym_details.has_currency = TRUE,
                              !.gym_details.currency = "$"]
              ELSE d1
    IN  Result(d2, d2.gym_details,
               ~d.has_gym_details \/ ~d1.gym_details.has_currency)

update_gym_details(d, name, logo_path, currency) ==
    LET g0 == IF ~d.has_gym_details THEN EmptyGymDetails ELSE d.gym_details
        g1 == [g0 EXCEPT !.name = name, !.has_currency = TRUE,
                         !.currency = currency]
        g2 == IF Truthy(logo_path)
              THEN [g1 EXCEPT !.has_logo = TRUE, !.logo = logo_path]
              ELSE g1
    IN  Result([d EXCEPT !.has_gym_details = TRUE, !.gym_details = g2],
               TRUE, TRUE)

\* ------------------------------------------------------------ members
\* Variant: the id taken from the number of members, as add_class takes its id.
add_member_by_count(d, name, phone, photo, membership_type, joined_date, is_trial, email) ==
    LET member_id == str(PyInt(Len(d.members) + 1))
        jd == IF ~Truthy(joined_date) THEN Today ELSE joined_date
        member == [id |-> member_id, name |-> name, phone |-> phone,
                   email |-> IF Truthy(email) THEN email ELSE EmptyStr,
                   photo |-> photo, joined_date |-> jd, active |-> TRUE,
                   membership_type |-> membership_type, is_trial |-> is_trial,
                   trial_end_date |-> IF is_trial THEN Date(jd.v + TrialDays) ELSE None]
    IN  Result([d EXCEPT !.members = DictSet(@, member_id, member),
                         !.next_member_id = @ + 1],
               int(member_id), TRUE)

add_member(d, name, phone, photo, membership_type, joined_date, is_trial, email) ==
    LET member_id == str(PyInt(d.next_member_id))
        jd == IF ~Truthy(joined_date) THEN Today ELSE joined_date
        trial_end == IF is_trial THEN Date(jd.v + TrialDays) ELSE None
        member == [id |-> member_id, name |-> name, phone |-> phone,
                   email |-> IF Truthy(email) THEN email ELSE EmptyStr,
                   photo |-> photo, joined_date |-> jd, active |-> TRUE,
                   membership_type |-> membership_type, is_trial |-> is_trial,
                   trial_end_date |-> trial_end]
    IN  Result([d EXCEPT !.members = DictSet(@, member_id, member),
                         !.next_member_id = @ + 1],
               int(member_id), TRUE)

update_member(d, member_id, name, phone, membership_type, joined_date, email) ==
    IF ~DictHas(d.members, member_id)
    THEN Result(d, FALSE, FALSE)
    ELSE LET m0 == DictGet(d.members, member_id)
             m1 == [m0 EXCEPT !.name = name, !.phone = phone,
                              !.membership_type = membership_type,
                              !.email = IF email # None THEN email ELSE @,
                              !.joined_date = IF Truthy(joined_date) THEN joined_date ELSE @]
         IN  Result([d EXCEPT !.members = DictSet(@, member_id, m1)], TRUE, TRUE)

\* Variant: the member removed, its fees left behind.
delete_member_keep_fees(d, member_id) ==
    IF ~DictHas(d.members, member_id)
    THEN Result(d, FALSE, FALSE)
    ELSE Result([d EXCEPT !.members = DictDel(@, member_id)], TRUE, TRUE)

delete_member(d, member_id) ==
    IF ~DictHas(d.members, member_id)
    THEN Result(d, FALSE, FALSE)
    ELSE Result([d EXCEPT !.members = DictDel(@, member_id),
                          !.fees = IF MapHas(@, member_id) THEN MapDel(@, member_id) ELSE @],
                TRUE, TRUE)

get_all_members(d) == DictValues(d.members)

get_member(d, member_id) ==
    IF DictHas(d.members, member_id) THEN DictGet(d.members, member_id) ELSE None

\* ------------------------------------------------------------ fees
\* Variant: a month already recorded keeps its first record (setdefault).
pay_fee_keep_first(d, member_id, month, amount, paid_date, notes) ==
    IF ~DictHas(d.members, member_id)
    THEN Result(d, FALSE, FALSE)
    ELSE LET fees0 == IF ~MapHas(d.fees, member_id)
                      THEN MapSet(d.fees, member_id, <<>>)
                      ELSE d.fees
             rec == [amount |-> amount,
                     paid_date |-> IF ~Truthy(paid_date) THEN NowStamp ELSE paid_date,
                     notes |-> IF Truthy(notes) THEN notes ELSE EmptyStr]
             mine == IF DictHas(fees0[member_id], month)
                     THEN fees0[member_id]
                     ELSE DictSet(fees0[member_id], month, rec)
         IN  Result([d EXCEPT !.fees = MapSet(fees0, member_id, mine)], TRUE, TRUE)

pay_fee(d, member_id, month, amount, paid_date, notes) ==
    IF ~DictHas(d.members, member_id)
    THEN Result(d, FALSE, FALSE)
    ELSE LET fees0 == IF ~MapHas(d.fees, member_id)
                      THEN MapSet(d.fees, member_id, <<>>)
                      ELSE d.fees
             pd == IF ~Truthy(paid_date) THEN NowStamp ELSE paid_date
             rec == [amount |-> amount, paid_date |-> pd,
                     notes |-> IF Truthy(notes) THEN notes ELSE EmptyStr]
             mine == DictSet(fees0[member_id], month, rec)
         IN  Result([d EXCEPT !.fees = MapSet(fees0, member_id, mine)], TRUE, TRUE)

delete_fee(d, member_id, month) ==
    IF ~MapHas(d.fees, member_id) \/ ~DictHas(d.fees[member_id], month)
    THEN Result(d, FALSE, FALSE)
    ELSE Result([d EXCEPT !.fees = MapSet(@, member_id, DictDel(@[member_id], month))],
                TRUE, TRUE)

update_fee(d, member_id, month, amount, date, notes) ==
    IF ~MapHas(d.fees, member_id) \/ ~DictHas(d.fees[member_id], month)
    THEN Result(d, FALSE, FALSE)
    ELSE LET mine == d.fees[member_id]
             r0 == DictGet(mine, month)
             r1 == [r0 EXCEPT !.amount = amount, !.paid_date = date,
                              !.notes = IF notes # None THEN notes ELSE @]
         IN  Result([d EXCEPT !.fees = MapSet(@, member_id, DictSet(mine, month, r1))],
                    TRUE, TRUE)

\* Variant: a record of amount 0 does not count as paid.
is_fee_paid_positive(d, member_id, month) ==
    IF ~MapHas(d.fees, member_id)
    THEN FALSE
    ELSE /\ DictHas(d.fees[member_id], month)
         /\ DictGet(d.fees[member_id], month).amount > 0

is_fee_paid(d, member_id, month) ==
    IF ~MapHas(d.fees, member_id)
    THEN FALSE
    ELSE DictHas(d.fees[member_id], month)

\* One step of the loop over members.items(): the paid and unpaid lists so far,
\* extended by the member at position i.
\* Variant: the else is missing, a paid member goes into unpaid as well.
PaymentStatusStep_no_else(d, month, acc, i) ==
    LET member_id == d.members[i].k
        member == d.members[i].v
        acc1 == [acc EXCEPT !.unpaid = Append(@, member)]
    IN  IF MapHas(d.fees, member_id) /\ DictHas(d.fees[member_id], month)
        THEN [acc1 EXCEPT !.paid = Append(@, member)]
        ELSE acc1

PaymentStatusStep(d, month, acc, i) ==
    LET member_id == d.members[i].k
        member == d.members[i].v
    IN  IF is_fee_paid(d, member_id, month)
        THEN LET fee_info == DictGet(d.fees[member_id], month)
                 member_copy == [id |-> member.id, name |-> member.name,
                                 phone |-> member.phone, email |-> member.email,
                                 photo |-> member.photo,
                                 joined_date |-> member.joined_date,
                                 active |-> member.active,
                                 membership_type |-> member.membership_type,
                                 is_trial |-> member.is_trial,
                                 trial_end_date |-> member.trial_end_date,
                                 last_paid |-> fee_info.paid_date,
                                 amount |-> fee_info.amount]
             IN  [acc EXCEPT !.paid = Append(@, member_copy)]
        ELSE [acc EXCEPT !.unpaid = Append(@, member)]

RECURSIVE PaymentStatusLoop(_, _, _)
PaymentStatusLoop(d, month, n) ==
    IF n = 0
    THEN [paid |-> <<>>, unpaid |-> <<>>]
    ELSE PaymentStatusStep(d, month, PaymentStatusLoop(d, month, n - 1), n)

get_payment_status(d, month) == PaymentStatusLoop(d, month, Len(d.members))

\* sorted(history, key=lambda x: x['month'], reverse=True): a stable sort, each
\* entry going behind the entries whose month is not smaller.
RECURSIVE InsertByMonthDesc(_, _)
InsertByMonthDesc(s, x) ==
    IF s = <<>> THEN <<x>>
    ELSE IF Head(s).month.v >= x.month.v
         THEN <<Head(s)>> \o InsertByMonthDesc(Tail(s), x)
         ELSE <<x>> \o s

RECURSIVE SortedByMonthDesc(_, _)
SortedByMonthDesc(h, n) ==
    IF n = 0 THEN <<>>
    ELSE InsertByMonthDesc(SortedByMonthDesc(h, n - 1), h[n])

get_member_fee_history(d, member_id) ==
    IF ~MapHas(d.fees, member_id)
    THEN <<>>
    ELSE LET mine == d.fees[member_id]
             history == [i \in 1..Len(mine) |->
                            [month |-> mine[i].k, amount |-> mine[i].v.amount,
                             paid_date |-> mine[i].v.paid_date,
                             notes |-> mine[i].v.notes]]
         IN  SortedByMonthDesc(history, Len(history))

\* ------------------------------------------------------------ classes
add_class(d, name, day, time, instructor, capacity) ==
    LET classes0 == IF ~d.has_classes THEN <<>> ELSE d.classes
        class_id == str(PyInt(Len(classes0) + 1))
        cls == [id |-> class_id, name |-> name, day |-> day, time |-> time,
                instructor |-> instructor, capacity |-> int(capacity).v,
                attendees |-> <<>>]
    IN  Result([d EXCEPT !.has_classes = TRUE,
                         !.classes = DictSet(classes0, class_id, cls)],
               class_id, TRUE)

InList(x, l) == \E i \in 1..Len(l) : l[i] = x

\* Variant: the capacity test off by one.
book_class_off_by_one(d, member_id, class_id) ==
    IF ~d.has_classes \/ ~DictHas(d.classes, class_id)
    THEN Result(d, FALSE, FALSE)
    ELSE LET cls == DictGet(d.classes, class_id)
         IN  IF InList(member_id, cls.attendees)
             THEN Result(d, TRUE, FALSE)
             ELSE IF Len(cls.attendees) > cls.capacity
                  THEN Result(d, FALSE, FALSE)
                  ELSE Result([d EXCEPT !.classes =
                                  DictSet(@, class_id,
                                          [cls EXCEPT !.attendees = Append(@, member_id)])],
                              TRUE, TRUE)

\* Variant: the capacity test made before the already-booked test.
book_class_capacity_first(d, member_id, class_id) ==
    IF ~d.has_classes \/ ~DictHas(d.classes, class_id)
    THEN Result(d, FALSE, FALSE)
    ELSE LET cls == DictGet(d.classes, class_id)
         IN  IF Len(cls.attendees) >= cls.capacity
             THEN Result(d, FALSE, FALSE)
             ELSE IF InList(member_id, cls.attendees)
                  THEN Result(d, TRUE, FALSE)
                  ELSE Result([d EXCEPT !.classes =
                                  DictSet(@, class_id,
                                          [cls EXCEPT !.attendees = Append(@, member_id)])],
                              TRUE, TRUE)

\* Variant: the capacity of the class not looked at.
book_class_no_capacity(d, member_id, class_id) ==
    IF ~d.has_classes \/ ~DictHas(d.classes, class_id)
    THEN Result(d, FALSE, FALSE)
    ELSE LET cls == DictGet(d.classes, class_id)
         IN  IF InList(member_id, cls.attendees)
             THEN Result(d, TRUE, FALSE)
             ELSE Result([d EXCEPT !.classes =
                             DictSet(@, class_id,
                                     [cls EXCEPT !.attendees = Append(@, member_id)])],
                         TRUE, TRUE)

book_class(d, member_id, class_id) ==
    IF ~d.has_classes \/ ~DictHas(d.classes, class_id)
    THEN Result(d, FALSE, FALSE)
    ELSE LET cls == DictGet(d.classes, class_id)
         IN  IF InList(member_id, cls.attendees)
             THEN Result(d, TRUE, FALSE)
             ELSE IF Len(cls.attendees) >= cls.capacity
                  THEN Result(d, FALSE, FALSE)
                  ELSE Result([d EXCEPT !.classes =
                                  DictSet(@, class_id,
                                          [cls EXCEPT !.attendees = Append(@, member_id)])],
                              TRUE, TRUE)

get_classes(d) == IF ~d.has_classes THEN <<>> ELSE DictValues(d.classes)

\* ------------------------------------------------------------ attendance
\* Variant: a member already checked in today gets no second entry.
log_attendance_once_a_day(d, member_id) ==
    IF ~DictHas(d.members, member_id)
    THEN Result(d, FALSE, FALSE)
    ELSE LET att0 == IF ~d.has_attendance THEN <<>> ELSE d.attendance
             att1 == IF ~DictHas(att0, member_id)
                     THEN DictSet(att0, member_id, <<>>)
                     ELSE att0
             mine == DictGet(att1, member_id)
             seen == \E i \in 1..Len(mine) :
                         mine[i].v \div TicksPerDay = now \div TicksPerDay
         IN  Result([d EXCEPT !.has_attendance = TRUE,
                              !.attendance =
                                  DictSet(att1, member_id,
                                          IF seen THEN mine ELSE Append(mine, NowStamp))],
                    TRUE, TRUE)

\* Variant: the attendance list of the id created before the member is looked up.
log_attendance_list_first(d, member_id) ==
    LET att0 == IF ~d.has_attendance THEN <<>> ELSE d.attendance
        att1 == IF ~DictHas(att0, member_id)
                THEN DictSet(att0, member_id, <<>>)
                ELSE att0
        d1 == [d EXCEPT !.has_attendance = TRUE, !.attendance = att1]
    IN  IF ~DictHas(d.members, member_id)
        THEN Result(d1, FALSE, FALSE)
        ELSE Result([d1 EXCEPT !.attendance =
                         DictSet(att1, member_id,
                                 Append(DictGet(att1, member_id), NowStamp))],
                    TRUE, TRUE)

log_attendance(d, member_id) ==
    IF ~DictHas(d.members, member_id)
    THEN Result(d, FALSE, FALSE)
    ELSE LET att0 == IF ~d.has_attendance THEN <<>> ELSE d.attendance
             att1 == IF ~DictHas(att0, member_id)
                     THEN DictSet(att0, member_id, <<>>)
                     ELSE att0
         IN  Result([d EXCEPT !.has_attendance = TRUE,
                              !.attendance =
                                  DictSet(att1, member_id,
                                          Append(DictGet(att1, member_id), NowStamp))],
                    TRUE, TRUE)

Reversed(l) == [i \in 1..Len(l) |-> l[Len(l) + 1 - i]]

get_attendance(d, member_id) ==
    IF ~d.has_attendance
    THEN <<>>
    ELSE IF DictHas(d.attendance, member_id)
         THEN Reversed(DictGet(d.attendance, member_id))
         ELSE <<>>

\* ------------------------------------------------------------ expenses
\* f"EXP{n:04d}" and float(x)
Exp(n) == [t |-> "exp", v |-> n]
PyFloat(n) == [t |-> "float", v |-> n]

\* Variant: the id taken from the number of ids given so far, a counter that
\* deletions do not lower.
expense_id_counter(d) == Exp(Len(issued.expenses) + 1)

\* The id add_expense gives to the next expense.
expense_id(d) == Exp(Len(d.expenses) + 1)

add_expense(d, category, amount, date, description) ==
    LET id == expense_id(d)
        expense == [id |-> id, category |-> category, amount |-> amount,
                    date |-> date, description |-> description]
    IN  Result([d EXCEPT !.expenses = DictSet(@, id, expense)], TRUE, TRUE)

delete_expense(d, id) ==
    IF ~DictHas(d.expenses, id)
    THEN Result(d, FALSE, FALSE)
    ELSE Result([d EXCEPT !.expenses = DictDel(@, id)], TRUE, TRUE)

\* ------------------------------------------------------------ requests
\* Inputs of the requests.  A member id in a URL or a form is a string; the
\* id MaxId + 1 is never handed out.
IdInputs == {PyStr(i) : i \in 1..(MaxId + 1)}
Months == {Month(1), Month(2)}
Amounts == {0, 50}
\* The add-member form as submitted: without an initial payment, and with one
\* (the trial box ticked as well, which the payment overrides).
AddMemberForms ==
    {[name |-> "Alice", joined_date |-> None, start_trial |-> FALSE,
      initial_month |-> None, initial_amount |-> 0],
     [name |-> "Alice", joined_date |-> None, start_trial |-> TRUE,
      initial_month |-> Month(1), initial_amount |-> 50]}
FeeInputs ==
    {[amount |-> 50, paid_date |-> None, notes |-> None],
     [amount |-> 0, paid_date |-> Stamp(1), notes |-> PyStr(1)]}
EditInputs ==
    {[name |-> "Carol", joined_date |-> EmptyStr, email |-> None]}
CapacityInputs == {PyStr(-1), PyStr(0), PyStr(1), PyStr(2)}
ClassIdInputs == {PyStr(i) : i \in 1..(MaxClasses + 1)}
ExpenseAmounts == {PyFloat(10), PyFloat(20)}
ExpenseIdInputs == {Exp(i) : i \in 1..MaxExpenses}

\* get_gym(): a GymManager built on the account's file for this request.
get_gym == load_data(file)

\* What a request leaves behind: the manager's document, the file when
\* save_data ran, and the record of the call.
Call(op, id, key, arg, ret) == [op |-> op, id |-> id, key |-> key, arg |-> arg, ret |-> ret]

Served(r, call) ==
    /\ data' = r.data
    /\ file' = IF r.saved THEN save_data(r.data) ELSE file
    /\ last' = call

\* The add-member form: add_member, then pay_fee with the id add_member
\* returned when an initial amount and month are given.
add_member_post(gym, name, joined_date, start_trial0, initial_month, initial_amount) ==
    LET start_trial == IF initial_amount > 0 THEN FALSE ELSE start_trial0
        added == add_member(gym, name, PyStr(555), None, "Gym", joined_date,
                            start_trial, None)
        member_id == added.ret
        paying == initial_amount > 0 /\ Truthy(initial_month)
        paid == IF paying
                THEN pay_fee(added.data, member_id, initial_month, initial_amount,
                             None, None)
                ELSE Result(added.data, FALSE, FALSE)
    IN  [data |-> paid.data, saved |-> TRUE, member_id |-> member_id,
         paying |-> paying, ret |-> paid.ret]

AddMemberWith(forms) ==
    \E form \in forms :
        LET gym == get_gym
            r == add_member_post(gym, form.name, form.joined_date, form.start_trial,
                                 form.initial_month, form.initial_amount)
        IN  /\ gym.next_member_id <= MaxId
            /\ Served(r, Call("add_member", r.member_id, form.initial_month,
                              [amount |-> form.initial_amount, paying |-> r.paying],
                              r.ret))
            /\ issued' = [issued EXCEPT !.all = @ \cup {r.member_id.v},
                                        !.epoch = @ \cup {r.member_id.v}]
            /\ UNCHANGED <<users, now, session, disk, reqs>>

AddMember == AddMemberWith(AddMemberForms)

UpdateMemberWith(edits) ==
    \E member_id \in IdInputs, e \in edits :
        LET r == update_member(get_gym, member_id, e.name, PyStr(555), "Gym",
                               e.joined_date, e.email)
        IN  /\ Served(r, Call("update_member", member_id, None, e, r.ret))
            /\ UNCHANGED <<issued, users, now, session, disk, reqs>>

UpdateMember == UpdateMemberWith(EditInputs)

DeleteMember ==
    \E member_id \in IdInputs :
        LET gym == get_gym
            r == delete_member(gym, member_id)
        IN  /\ Served(r, Call("delete_member", member_id, None,
                              [had_fees |-> MapHas(gym.fees, member_id)], r.ret))
            /\ UNCHANGED <<issued, users, now, session, disk, reqs>>

PayFee ==
    \E member_id \in IdInputs, month \in Months, f \in FeeInputs :
        LET r == pay_fee(get_gym, member_id, month, f.amount, f.paid_date, f.notes)
        IN  /\ Served(r, Call("pay_fee", member_id, month, f, r.ret))
            /\ UNCHANGED <<issued, users, now, session, disk, reqs>>

DeleteFee ==
    \E member_id \in IdInputs, month \in Months :
        LET r == delete_fee(get_gym, member_id, month)
        IN  /\ Served(r, Call("delete_fee", member_id, month, None, r.ret))
            /\ UNCHANGED <<issued, users, now, session, disk, reqs>>

UpdateFee ==
    \E member_id \in IdInputs, month \in Months :
        LET f == [amount |-> 20, paid_date |-> Stamp(2), notes |-> None]
            r == update_fee(get_gym, member_id, month, f.amount, f.paid_date, f.notes)
        IN  /\ Served(r, Call("update_fee", member_id, month, f, r.ret))
            /\ UNCHANGED <<issued, users, now, session, disk, reqs>>

ResetData ==
    LET r == reset_data(get_gym)
    IN  /\ Served(r, Call("reset_data", None, None, None, r.ret))
        /\ issued' = [issued EXCEPT !.epoch = {}]
        /\ UNCHANGED <<users, now, session, disk, reqs>>

AddClass ==
    \E capacity \in CapacityInputs :
        LET gym == get_gym
            r == add_class(gym, "Yoga", "Monday", "17:00", "Dana", capacity)
        IN  /\ Len(gym.classes) < MaxClasses
            /\ Served(r, Call("add_class", r.ret, None, capacity, TRUE))
            /\ UNCHANGED <<issued, users, now, session, disk, reqs>>

BookClass ==
    \E member_id \in IdInputs, class_id \in ClassIdInputs :
        LET r == book_class(get_gym, member_id, class_id)
        IN  /\ Served(r, Call("book_class", member_id, class_id, None, r.ret))
            /\ UNCHANGED <<issued, users, now, session, disk, reqs>>

\* log_attendance called with an id: the visit of a member, and of an id
\* that is not a member's.
RECURSIVE VisitsLogged(_, _)
VisitsLogged(att, n) ==
    IF n = 0 THEN 0 ELSE Len(att[n].v) + VisitsLogged(att, n - 1)

LogAttendance ==
    \E member_id \in IdInputs :
        LET gym == get_gym
            r == log_attendance(gym, member_id)
        IN  /\ VisitsLogged(gym.attendance, Len(gym.attendance)) < MaxVisits
            /\ Served(r, Call("log_attendance", member_id, None, None, r.ret))
            /\ UNCHANGED <<issued, users, now, session, disk, reqs>>

\* A page rendered: get_gym_details of the request's GymManager.  The call
\* record keeps whether a default was missing from the loaded document.
GetGymDetails ==
    LET gym == get_gym
        r == get_gym_details(gym)
    IN  /\ Served(r, Call("get_gym_details", None, None,
                          [filled |-> ~gym.has_gym_details
                                        \/ ~gym.gym_details.has_currency],
                          r.ret))
        /\ UNCHANGED <<issued, users, now, session, disk, reqs>>

\* The settings form: a name, a currency, and a logo or none.
GymNames == {"Gym Manager", "Iron"}
LogoInputs == {None, PyStr(1)}

UpdateGymDetails ==
    \E name \in GymNames, logo_path \in LogoInputs :
        LET r == update_gym_details(get_gym, name, logo_path, "$")
        IN  /\ Served(r, Call("update_gym_details", None, None,
                              [name |-> name, logo_path |-> logo_path], r.ret))
            /\ UNCHANGED <<issued, users, now, session, disk, reqs>>

\* The expenses form and the delete button of an expense.  The call record
\* keeps the id the expense got and whether the call before it deleted one.
AddExpense ==
    \E amount \in ExpenseAmounts :
        LET gym == get_gym
            r == add_expense(gym, "Rent", amount, Today, EmptyStr)
            id == expense_id(gym)
        IN  /\ Len(issued.expenses) < MaxExpenses
            /\ Served(r, Call("add_expense", id, None,
                              [amount |-> amount,
                               after_delete |-> last.op = "delete_expense" /\ last.ret],
                              r.ret))
            /\ issued' = [issued EXCEPT !.expenses = Append(@, id)]
            /\ UNCHANGED <<users, now, session, disk, reqs>>

DeleteExpense ==
    \E id \in ExpenseIdInputs :
        LET r == delete_expense(get_gym, id)
        IN  /\ Served(r, Call("delete_expense", id, None, None, r.ret))
            /\ UNCHANGED <<issued, users, now, session, disk, reqs>>

\* ------------------------------------------------------------ concurrent requests
\* Two requests of one account served at the same time, each by its own
\* GymManager: the constructor loads the file into self.data, the operation
\* changes self.data and save_data writes it over the file.
Workers == {1, 2}
MemberNames == {"Alice", "Bob"}
NoBooking == [member_id |-> None, class_id |-> None]
IdleRequest == [pc |-> "idle", loaded |-> _create_empty_data,
                data |-> _create_empty_data, name |-> "", arg |-> NoBooking,
                ret |-> None]

\* Variant: the document read again from the file when the operation runs.
request_data_reloaded(p) == load_data(file)

\* self.data of the GymManager of request p.
request_data(p) == reqs[p].data

\* GymManager(data_file) of an add-member request.
BeginAddMember(p) ==
    \E name \in MemberNames :
        LET gym == load_data(file)
        IN  /\ reqs[p].pc = "idle"
            /\ gym.next_member_id <= MaxId
            /\ reqs' = [reqs EXCEPT ![p] = [pc |-> "loaded", loaded |-> gym,
                                            data |-> gym, name |-> name,
                                            arg |-> NoBooking, ret |-> None]]
            /\ UNCHANGED <<file, data, last, issued, users, now, session, disk>>

\* add_member of the request: self.data changed and written to the file.
FinishAddMember(p) ==
    LET r == add_member(request_data(p), reqs[p].name, PyStr(555), None, "Gym",
                        None, FALSE, None)
    IN  /\ reqs[p].pc = "loaded"
        /\ reqs' = [reqs EXCEPT ![p].pc = "done", ![p].data = r.data,
                                ![p].ret = r.ret]
        /\ Served(r, Call("add_member", r.ret, None, [worker |-> p], TRUE))
        /\ issued' = [issued EXCEPT !.all = @ \cup {r.ret.v},
                                    !.epoch = @ \cup {r.ret.v}]
        /\ UNCHANGED <<users, now, session, disk>>

\* The classes of the booking requests, and the class ids they ask for: the
\* ids of the classes and of one class that does not exist.
MaxRaceClasses == 1
RaceClassIds == {PyStr(i) : i \in 1..(MaxRaceClasses + 1)}

\* GymManager(data_file) of a booking request.
BeginBookClass(p) ==
    \E member_id \in IdInputs, class_id \in RaceClassIds :
        LET gym == load_data(file)
        IN  /\ reqs[p].pc = "idle"
            /\ reqs' = [reqs EXCEPT ![p] = [pc |-> "loaded", loaded |-> gym,
                                            data |-> gym, name |-> "",
                                            arg |-> [member_id |-> member_id,
                                                     class_id |-> class_id],
                                            ret |-> None]]
            /\ UNCHANGED <<file, data, last, issued, users, now, session, disk>>

\* book_class of the request: the checks and the append on self.data, which
\* is written to the file when the member was appended.
FinishBookClass(p) ==
    /\ reqs[p].pc = "loaded"
    /\ reqs[p].arg # NoBooking
    /\ LET r == book_class(request_data(p), reqs[p].arg.member_id,
                           reqs[p].arg.class_id)
       IN  /\ reqs' = [reqs EXCEPT ![p].pc = "done", ![p].data = r.data,
                                   ![p].ret = r.ret]
           /\ Served(r, Call("book_class", reqs[p].arg.member_id,
                             reqs[p].arg.class_id, [worker |-> p], r.ret))
    /\ UNCHANGED <<issued, users, now, session, disk>>

\* The response sent, the GymManager dropped.
Respond(p) ==
    /\ reqs[p].pc = "done"
    /\ reqs' = [reqs EXCEPT ![p] = IdleRequest]
    /\ UNCHANGED <<file, data, last, issued, users, now, session, disk>>

\* ------------------------------------------------------------ user store
Lifetime == 99

hash_password(password) == [t |-> "sha256", v |-> password]

user_exists(us, username) == DictHas(us, username)

\* str.upper() on the referral codes of the model.
upper(code) ==
    CASE code.v = "vip2025" -> Text("VIP2025")
      [] code.v = "free" -> Text("FREE")
      [] OTHER -> code

valid_codes == {Text("VIP2025"), Text("FREE")}

validate_referral(code) ==
    IF IsNone(code) \/ code.v = "" THEN FALSE ELSE upper(code) \in valid_codes

\* The result of a user-store operation: the accounts after it and the value
\* returned.
AuthResult(us, ret) == [users |-> us, ret |-> ret]

\* Variant: the account written without looking for the username first.
create_user_overwrite(us, username, password, referral_code) ==
    LET free == ~IsNone(referral_code) /\ referral_code.v # ""
                /\ validate_referral(referral_code)
        user == [password |-> hash_password(password),
                 joined_at |-> NowStamp,
                 referral_code |-> referral_code,
                 plan |-> IF free THEN "free_lifetime" ELSE "standard",
                 subscription_expiry |-> IF free THEN Date(Lifetime) ELSE None,
                 subscription_status |-> None,
                 payment_proof |-> None,
                 has_payments |-> FALSE,
                 payments |-> <<>>]
    IN  AuthResult(DictSet(us, username, user), TRUE)

create_user(us, username, password, referral_code) ==
    IF DictHas(us, username)
    THEN AuthResult(us, FALSE)
    ELSE LET free == ~IsNone(referral_code) /\ referral_code.v # ""
                     /\ validate_referral(referral_code)
             user == [password |-> hash_password(password),
                      joined_at |-> NowStamp,
                      referral_code |-> referral_code,
                      plan |-> IF free THEN "free_lifetime" ELSE "standard",
                      subscription_expiry |-> IF free THEN Date(Lifetime) ELSE None,
                      subscription_status |-> None,
                      payment_proof |-> None,
                      has_payments |-> FALSE,
                      payments |-> <<>>]
         IN  AuthResult(DictSet(us, username, user), TRUE)

\* datetime.strptime(expiry_str, '%Y-%m-%d'): midnight at the start of that day.
strptime(date) == date.v * TicksPerDay

\* Variant: the plan not looked at, the expiry date alone decides.
is_subscription_active_by_expiry(us, username) ==
    IF ~DictHas(us, username) THEN FALSE
    ELSE LET user == DictGet(us, username)
             expiry_str == user.subscription_expiry
         IN  IF IsNone(expiry_str) THEN FALSE
             ELSE now <= strptime(expiry_str)

is_subscription_active(us, username) ==
    IF ~DictHas(us, username) THEN FALSE
    ELSE LET user == DictGet(us, username)
         IN  IF user.plan = "free_lifetime" THEN TRUE
             ELSE LET expiry_str == user.subscription_expiry
                  IN  IF IsNone(expiry_str) THEN FALSE
                      ELSE now <= strptime(expiry_str)

\* Variant: the payment put at the front of the list.
record_payment_front(us, username, amount, method) ==
    IF ~DictHas(us, username) THEN us
    ELSE LET user == DictGet(us, username)
             payments0 == IF ~user.has_payments THEN <<>> ELSE user.payments
             payment == [date |-> NowStamp, amount |-> amount, method |-> method,
                         status |-> "Completed"]
         IN  DictSet(us, username,
                     [user EXCEPT !.has_payments = TRUE,
                                  !.payments = <<payment>> \o payments0])

record_payment(us, username, amount, method) ==
    IF ~DictHas(us, username) THEN us
    ELSE LET user == DictGet(us, username)
             payments0 == IF ~user.has_payments THEN <<>> ELSE user.payments
             payment == [date |-> NowStamp, amount |-> amount, method |-> method,
                         status |-> "Completed"]
         IN  DictSet(us, username,
                     [user EXCEPT !.has_payments = TRUE,
                                  !.payments = Append(payments0, payment)])

\* (datetime.now() + timedelta(days=days)).strftime('%Y-%m-%d')
DateAfter(days) == Date((now + days * TicksPerDay) \div TicksPerDay)

renew_subscription(us, username, days) ==
    IF DictHas(us, username)
    THEN LET us1 == DictSet(us, username,
                            [DictGet(us, username) EXCEPT
                                !.subscription_expiry = DateAfter(days)])
         IN  AuthResult(record_payment(us1, username, 60, "Credit Card"), TRUE)
    ELSE AuthResult(us, FALSE)

set_payment_pending(us, username, proof_filename) ==
    IF DictHas(us, username)
    THEN AuthResult(DictSet(us, username,
                            [DictGet(us, username) EXCEPT
                                !.subscription_status = Text("pending"),
                                !.payment_proof = proof_filename]),
                    TRUE)
    ELSE AuthResult(us, FALSE)

IsPending(user) ==
    ~IsNone(user.subscription_status) /\ user.subscription_status.v = "pending"

get_pending_approvals(us) ==
    LET pendingTest(e) == IsPending(e.v)
        pending == SelectSeq(us, pendingTest)
    IN  [i \in 1..Len(pending) |->
            [username |-> pending[i].k, proof |-> pending[i].v.payment_proof,
             joined |-> pending[i].v.joined_at]]

\* Variant: the 30 days added to the days the account still has.
approve_manual_payment_extend(us, username) ==
    IF DictHas(us, username)
    THEN LET user == DictGet(us, username)
             old == user.subscription_expiry
             from == IF ~IsNone(old) /\ old.v > Today.v THEN old.v ELSE Today.v
             us1 == DictSet(us, username,
                            [user EXCEPT !.subscription_status = Text("active"),
                                         !.subscription_expiry = Date(from + 30)])
         IN  AuthResult(record_payment(us1, username, 2000, "Manual/JazzCash"), TRUE)
    ELSE AuthResult(us, FALSE)

approve_manual_payment(us, username) ==
    IF DictHas(us, username)
    THEN LET us1 == DictSet(us, username,
                            [DictGet(us, username) EXCEPT
                                !.subscription_status = Text("active"),
                                !.subscription_expiry = DateAfter(30)])
         IN  AuthResult(record_payment(us1, username, 2000, "Manual/JazzCash"), TRUE)
    ELSE AuthResult(us, FALSE)

\* ------------------------------------------------------------ account requests
Usernames == {Text("ann@gym.com"), Text("bob@gym.com")}
SignupNames == {Text("ann@gym.com")}
ReferralInputs == {None, Text("free")}
RenewDays == {0, 1, 30}

PaymentsOf(us, username) ==
    IF DictHas(us, username) THEN DictGet(us, username).payments ELSE <<>>

ExpiryOf(us, username) ==
    IF DictHas(us, username) THEN DictGet(us, username).subscription_expiry ELSE None

AuthServed(r, call) ==
    /\ users' = r.users
    /\ last' = call
    /\ UNCHANGED <<file, data, issued, now, session, disk, reqs>>

CreateUser ==
    \E username \in SignupNames, code \in ReferralInputs :
        LET r == create_user(users, username, "pw", code)
        IN  AuthServed(r, Call("create_user", username, None, code, r.ret))

RenewSubscription ==
    \E username \in Usernames, days \in RenewDays :
        LET r == renew_subscription(users, username, days)
        IN  /\ Len(PaymentsOf(users, username)) < MaxPayments
            /\ AuthServed(r, Call("renew_subscription", username, None,
                                  [days |-> days,
                                   was_active |-> is_subscription_active(users, username)],
                                  r.ret))

SetPaymentPending ==
    \E username \in Usernames :
        LET r == set_payment_pending(users, username, Text("proof.png"))
        IN  AuthServed(r, Call("set_payment_pending", username, None, None, r.ret))

ApproveManualPayment ==
    \E username \in Usernames :
        LET r == approve_manual_payment(users, username)
        IN  /\ Len(PaymentsOf(users, username)) < MaxPayments
            /\ AuthServed(r, Call("approve_manual_payment", username, None,
                                  [before |-> ExpiryOf(users, username)], r.ret))

\* Time passes between requests.
Tick ==
    /\ now < MaxNow
    /\ now' = now + 1
    /\ UNCHANGED <<file, data, last, issued, users, session, disk, reqs>>

\* ------------------------------------------------------------ web layer
\* The session of a browser that has not logged in.
NoSession == [logged_in |-> FALSE, username |-> None, needs_payment |-> FALSE]

\* A username typed into the sign-up form, character by character.
\* 'admin@gym.com', 'test@admin.com', 'mashalkhttak@gmail.com',
\* 'ann@gym.com' and 'an-n@gym.com'.
AdminName == Text(<<"a", "d", "m", "i", "n", "@", "g", "y", "m", ".", "c", "o", "m">>)
TestAdminName ==
    Text(<<"t", "e", "s", "t", "@", "a", "d", "m", "i", "n", ".", "c", "o", "m">>)
OwnerName ==
    Text(<<"m", "a", "s", "h", "a", "l", "k", "h", "t", "t", "a", "k", "@",
           "g", "m", "a", "i", "l", ".", "c", "o", "m">>)
AnnName == Text(<<"a", "n", "n", "@", "g", "y", "m", ".", "c", "o", "m">>)
AnnDashName == Text(<<"a", "n", "-", "n", "@", "g", "y", "m", ".", "c", "o", "m">>)

ADMIN_EMAILS == {AdminName, OwnerName, TestAdminName}

\* str.isalpha, str.isdigit on the characters of the model.
isalpha(c) ==
    c \in {"a", "b", "c", "d", "e", "f", "g", "h", "i", "j", "k", "l", "m",
           "n", "o", "p", "q", "r", "s", "t", "u", "v", "w", "x", "y", "z"}
isdigit(c) == c \in {"0", "1", "2", "3", "4", "5", "6", "7", "8", "9"}

\* str.strip(): the white space at both ends removed.
RECURSIVE lstrip(_)
lstrip(s) == IF s # <<>> /\ Head(s) = " " THEN lstrip(Tail(s)) ELSE s
RECURSIVE rstrip(_)
rstrip(s) ==
    IF s # <<>> /\ s[Len(s)] = " " THEN rstrip(SubSeq(s, 1, Len(s) - 1)) ELSE s
strip(s) == rstrip(lstrip(s))

SafeChar(c) == isalpha(c) \/ isdigit(c) \/ c \in {"@", ".", "_"}

\* Variant: no character dropped from the username.
get_user_data_file_verbatim(username) ==
    [dir |-> "gym_data", name |-> username.v, ext |-> ".json"]

\* f"gym_data/{safe_name}.json"
get_user_data_file(username) ==
    LET safe_name == strip(SelectSeq(username.v, SafeChar))
    IN  [dir |-> "gym_data", name |-> safe_name, ext |-> ".json"]

verify_user(us, username, password) ==
    IF ~DictHas(us, username) THEN FALSE
    ELSE DictGet(us, username).password = hash_password(password)

\* The file of a name on the disk, and the disk after GymManager.save_data.
DiskFile(dsk, f) == IF f \in DOMAIN dsk THEN dsk[f] ELSE NoFile
DiskSave(dsk, f, saved, d) == IF saved THEN MapSet(dsk, f, save_data(d)) ELSE dsk

\* get_gym() of a logged-in session: the document loaded from the user's file.
session_gym(sess, dsk) == load_data(DiskFile(dsk, get_user_data_file(sess.username)))

\* Variant: the dashboard open to sessions without an active subscription.
public_endpoints_with_dashboard ==
    {"auth", "google_login", "static", "subscription", "logout",
     "create_checkout_session", "payment_success", "payment_cancel", "dashboard"}

public_endpoints ==
    {"auth", "google_login", "static", "subscription", "logout",
     "create_checkout_session", "payment_success", "payment_cancel"}

\* before_request: whether the request is answered with the redirect to the
\* subscription page, and the session after it.
check_subscription(endpoint, sess, us) ==
    IF endpoint \in public_endpoints \/ ~sess.logged_in
    THEN [redirect |-> FALSE, session |-> sess]
    ELSE IF ~is_subscription_active(us, sess.username)
         THEN [redirect |-> TRUE, session |-> [sess EXCEPT !.needs_payment = TRUE]]
         ELSE [redirect |-> FALSE, session |-> sess]

\* Variant: every logged-in session may approve.
is_admin_logged_in(sess) == sess.logged_in

\* session.get('username') in ADMIN_EMAILS
is_admin(sess) == sess.username \in ADMIN_EMAILS

\* What a request did with the gym document of the session's user: whether
\* the route's handler ran, and the sections of the document that were read
\* or written.  The documents the program writes always hold gym_details
\* with a currency, so get_gym_details only reads.
Access(handler, sections) == [handler |-> handler, touched |-> sections]
NoAccess == {}

\* inject_gym_details, run when a template is rendered.
inject_gym_details(sess) == IF sess.logged_in THEN {"gym_details"} ELSE NoAccess

\* The answer to a request stopped by check_subscription.
Gated(op, sess, gate) ==
    Call(op, sess.username, None, Access(FALSE, NoAccess), "redirect:subscription")

WebServed(us, sess, dsk, call) ==
    /\ users' = us
    /\ session' = sess
    /\ disk' = dsk
    /\ last' = call
    /\ UNCHANGED <<file, data, issued, now, reqs>>

\* ------------------------------------------------------------ web requests
\* A request is recorded as Call(endpoint, session user, target, access and
\* inputs, response).
WebNames == {AdminName, AnnName, AnnDashName}
GateNames == {AdminName, AnnName}
TenantNames == {AnnName, AnnDashName}
Passwords == {"pw", "other"}

\* The payment records of all accounts, counted.
RECURSIVE TotalPayments(_)
TotalPayments(us) ==
    IF us = <<>> THEN 0 ELSE Len(Head(us).v.payments) + TotalPayments(Tail(us))
CurrentMonth == Month(1 + (now \div TicksPerDay) \div 30)

\* POST /auth, action=signup
Signup(names, passwords) ==
    \E username \in names, password \in passwords, code \in ReferralInputs :
        LET r == create_user(users, username, password, code)
            shown == IF r.ret THEN NoAccess ELSE inject_gym_details(session)
        IN  /\ DictHas(users, username) \/ Len(users) < MaxUsers
            /\ WebServed(r.users, session, disk,
                   Call("signup", session.username, username,
                        [handler |-> TRUE, touched |-> shown,
                         password |-> password, code |-> code, created |-> r.ret],
                        IF r.ret THEN "redirect:auth" ELSE "render:auth"))

\* POST /auth, action=login
Login ==
    \E username \in WebNames, password \in Passwords :
        LET ok == verify_user(users, username, password)
            sess == IF ok
                    THEN [session EXCEPT !.logged_in = TRUE, !.username = username]
                    ELSE session
            shown == IF ok THEN NoAccess ELSE inject_gym_details(session)
        IN  WebServed(users, sess, disk,
                Call("login", session.username, username, Access(TRUE, shown),
                     IF ok THEN "redirect:dashboard" ELSE "render:auth"))

\* GET /logout: session.clear(), then url_for('login') of an endpoint that
\* does not exist.
Logout ==
    WebServed(users, NoSession, disk,
        Call("logout", session.username, None, Access(TRUE, NoAccess), "error"))

\* GET /subscription
SubscriptionPage ==
    LET username == session.username
        active == is_subscription_active(users, username)
        pending == DictHas(users, username) /\ IsPending(DictGet(users, username))
    IN  WebServed(users, session, disk,
            Call("subscription", username, None,
                 Access(TRUE, IF active THEN NoAccess ELSE inject_gym_details(session)),
                 IF active THEN "redirect:dashboard"
                 ELSE IF pending THEN "render:payment_pending"
                 ELSE "render:payment_select"))

\* GET /payment_success, reached by the redirect of a completed checkout or
\* requested directly: the session_id of the checkout is not looked at.
PaymentSuccess ==
    \E completed_checkout \in BOOLEAN :
        LET username == session.username
            r == renew_subscription(users, username, 30)
        IN  /\ TotalPayments(users) < MaxPayments
            /\ IF IsNone(username)
               THEN WebServed(users, session, disk,
                        Call("payment_success", username, None,
                             [handler |-> TRUE, touched |-> NoAccess,
                              completed_checkout |-> completed_checkout],
                             "redirect:auth"))
               ELSE WebServed(r.users, [session EXCEPT !.needs_payment = FALSE], disk,
                        Call("payment_success", username, None,
                             [handler |-> TRUE, touched |-> NoAccess,
                              completed_checkout |-> completed_checkout],
                             "redirect:dashboard"))

\* POST /manual_payment with a payment proof
ManualPayment ==
    LET username == session.username
        gate == check_subscription("manual_payment", session, users)
        r == set_payment_pending(users, username, Text("proof.png"))
    IN  IF gate.redirect
        THEN WebServed(users, gate.session, disk, Gated("manual_payment", session, gate))
        ELSE IF IsNone(username)
        THEN WebServed(users, session, disk,
                 Call("manual_payment", username, None, Access(TRUE, NoAccess),
                      "redirect:auth"))
        ELSE WebServed(r.users, session, disk,
                 Call("manual_payment", username, None, Access(TRUE, NoAccess),
                      "redirect:subscription"))

\* GET /approve_payment/<target_username>
ApprovePayment ==
    \E target \in WebNames :
        LET gate == check_subscription("approve_payment", session, users)
            r == approve_manual_payment(users, target)
        IN  /\ TotalPayments(users) < MaxPayments
            /\ IF gate.redirect
               THEN WebServed(users, gate.session, disk,
                        Gated("approve_payment", session, gate))
               ELSE IF ~is_admin(session)
               THEN WebServed(users, session, disk,
                        Call("approve_payment", session.username, target,
                             Access(TRUE, NoAccess), "redirect:dashboard"))
               ELSE WebServed(r.users, session, disk,
                        Call("approve_payment", session.username, target,
                             Access(TRUE, NoAccess), "redirect:super_admin"))

\* GET /dashboard
Dashboard ==
    LET gate == check_subscription("dashboard", session, users)
        gym == session_gym(session, disk)
    IN  IF gate.redirect
        THEN WebServed(users, gate.session, disk, Gated("dashboard", session, gate))
        ELSE IF ~session.logged_in
        THEN WebServed(users, session, disk,
                 Call("dashboard", session.username, None, Access(TRUE, NoAccess),
                      "redirect:auth"))
        ELSE WebServed(users, session, disk,
                 Call("dashboard", session.username, None,
                      [handler |-> TRUE,
                       touched |-> {"members", "fees"} \cup inject_gym_details(session),
                       status |-> get_payment_status(gym, CurrentMonth),
                       total_members |-> Len(get_all_members(gym))],
                      "render:dashboard"))

\* POST /add_member
WebAddMember ==
    \E form \in AddMemberForms :
        LET gate == check_subscription("add_member", session, users)
            gym == session_gym(session, disk)
            r == add_member_post(gym, form.name, form.joined_date, form.start_trial,
                                 form.initial_month, form.initial_amount)
        IN  IF gate.redirect
            THEN WebServed(users, gate.session, disk, Gated("add_member", session, gate))
            ELSE IF ~session.logged_in
            THEN WebServed(users, session, disk,
                     Call("add_member", session.username, None, Access(TRUE, NoAccess),
                          "redirect:auth"))
            ELSE /\ gym.next_member_id <= MaxId
                 /\ WebServed(users, session,
                        DiskSave(disk, get_user_data_file(session.username), r.saved,
                                 r.data),
                        Call("add_member", session.username, None,
                             Access(TRUE, {"members", "fees", "next_member_id"}),
                             "redirect:dashboard"))

\* ------------------------------------------------------------ specifications
NoCall == Call("none", None, None, None, FALSE)

Init ==
    /\ file = NoFile
    /\ data = _create_empty_data
    /\ last = NoCall
    /\ issued = [all |-> {}, epoch |-> {}, expenses |-> <<>>]
    /\ users = <<>>
    /\ now = 0
    /\ session = NoSession
    /\ disk = <<>>
    /\ reqs = [p \in Workers |-> IdleRequest]

\* Members and fees of one account, one request at a time.
\* ------------------------------------------------------------ check-in
\* The add-member form of a member without a trial, and of a trial member
\* whose joined date lies two days back; the edit form with a joined date.
CheckInForms ==
    {[name |-> "Alice", joined_date |-> None, start_trial |-> FALSE,
      initial_month |-> None, initial_amount |-> 0],
     [name |-> "Bob", joined_date |-> Date(-2), start_trial |-> TRUE,
      initial_month |-> None, initial_amount |-> 0]}
CheckInEdits ==
    {[name |-> "Carol", joined_date |-> Date(0), email |-> None]}

\* Variant: the trial over on its last day.
scan_status_strict(is_paid, member, today) ==
    IF is_paid
    THEN "ACCESS GRANTED"
    ELSE IF member.is_trial
         THEN IF member.trial_end_date.v > today.v
              THEN "TRIAL"
              ELSE "ACCESS DENIED - TRIAL EXPIRED"
         ELSE "ACCESS DENIED - FEE PENDING"

\* The status scan_check shows.  Dates are '%Y-%m-%d' strings, compared as
\* strings: the order of the days.
scan_status(is_paid, member, today) ==
    IF is_paid
    THEN "ACCESS GRANTED"
    ELSE IF member.is_trial
         THEN IF member.trial_end_date.v >= today.v
              THEN "TRIAL"
              ELSE "ACCESS DENIED - TRIAL EXPIRED"
         ELSE "ACCESS DENIED - FEE PENDING"

\* scan_check(member_id): the redirect for an id that is no member's; else
\* the status, log_attendance when the fee of the current month is paid, and
\* the result page with get_gym_details.
scan_check(gym, member_id) ==
    LET current_month == CurrentMonth
        is_paid == is_fee_paid(gym, member_id, current_month)
    IN  IF ~DictHas(gym.members, member_id)
        THEN Result(gym, "redirect:scanner", FALSE)
        ELSE LET member == get_member(gym, member_id)
                 status == scan_status(is_paid, member, Today)
                 logged == IF is_paid
                           THEN log_attendance(gym, member_id)
                           ELSE Result(gym, FALSE, FALSE)
                 shown == get_gym_details(logged.data)
             IN  Result(shown.data, status, logged.saved \/ shown.saved)

ScanCheck ==
    \E member_id \in IdInputs :
        LET gym == get_gym
            r == scan_check(gym, member_id)
        IN  /\ VisitsLogged(gym.attendance, Len(gym.attendance)) < MaxVisits
            /\ Served(r, Call("scan_check", member_id, CurrentMonth, None, r.ret))
            /\ UNCHANGED <<issued, users, now, session, disk, reqs>>

\* Data files of older versions: written before gym_details was part of the
\* document, and before gym_details had a currency.
LegacyFiles ==
    {save_data([_create_empty_data EXCEPT !.has_gym_details = FALSE,
                                          !.gym_details = EmptyGymDetails]),
     save_data([_create_empty_data EXCEPT !.gym_details.has_currency = FALSE,
                                          !.gym_details.currency = ""])}

\* An account with no data file yet, or with the data file of an older version.
InitStore ==
    /\ file \in {NoFile} \cup LegacyFiles
    /\ data = load_data(file)
    /\ last = NoCall
    /\ issued = [all |-> {}, epoch |-> {}, expenses |-> <<>>]
    /\ users = <<>>
    /\ now = 0
    /\ session = NoSession
    /\ disk = <<>>
    /\ reqs = [p \in Workers |-> IdleRequest]

Next ==
    \/ AddMember
    \/ DeleteMember
    \/ PayFee
    \/ DeleteFee
    \/ ResetData

Spec == Init /\ [][Next]_vars

\* Classes of one account, one request at a time.
NextClasses ==
    \/ AddClass
    \/ BookClass
    \/ ResetData

SpecClasses == Init /\ [][NextClasses]_vars

\* The accounts and the clock.
NextAuth ==
    \/ CreateUser
    \/ RenewSubscription
    \/ SetPaymentPending
    \/ ApproveManualPayment
    \/ Tick

SpecAuth == Init /\ [][NextAuth]_vars

\* Expenses of one account, one request at a time.
NextExpenses ==
    \/ AddExpense
    \/ DeleteExpense
    \/ ResetData

SpecExpenses == Init /\ [][NextExpenses]_vars

\* The subscription gate and the payment routes: one browser session and
\* the accounts.
NextWeb ==
    \/ Signup(GateNames, {"pw"})
    \/ Login
    \/ Logout
    \/ SubscriptionPage
    \/ PaymentSuccess
    \/ ManualPayment
    \/ ApprovePayment
    \/ Dashboard

SpecWeb == Init /\ [][NextWeb]_vars

\* Sign-up: the accounts, with any password and referral code.
NextSignup ==
    \/ Signup(WebNames, Passwords)
    \/ Login
    \/ PaymentSuccess

SpecSignup == Init /\ [][NextSignup]_vars

\* The gym documents of the accounts on the disk.
NextTenants ==
    \/ Signup(TenantNames, {"pw"})
    \/ Login
    \/ Dashboard
    \/ WebAddMember

SpecTenants == Init /\ [][NextTenants]_vars

\* Two add-member requests of one account, their file accesses interleaved.
NextRace ==
    \/ \E p \in Workers : BeginAddMember(p)
    \/ \E p \in Workers : FinishAddMember(p)
    \/ \E p \in Workers : Respond(p)

SpecRace == Init /\ [][NextRace]_vars

\* The number of entries of a document.
RECURSIVE FeeRecords(_, _)
FeeRecords(fees, ids) ==
    IF ids = {} THEN 0
    ELSE LET id == CHOOSE x \in ids : TRUE
         IN  Len(fees[id]) + FeeRecords(fees, ids \ {id})

RECURSIVE Attendees(_, _)
Attendees(classes, n) ==
    IF n = 0 THEN 0 ELSE Len(classes[n].v.attendees) + Attendees(classes, n - 1)

DocSize(d) ==
    Len(d.members) + FeeRecords(d.fees, DOMAIN d.fees)
        + VisitsLogged(d.attendance, Len(d.attendance))
        + Len(d.classes) + Attendees(d.classes, Len(d.classes))
        + Len(d.expenses)

\* The operations of the data store, requests executed one at a time, on
\* documents of at most MaxDocSize entries: one month, one fee form, one
\* class of capacity 1 and one expense.
NextStore ==
    \/ DocSize(get_gym) < MaxDocSize /\ AddMember /\ ~last'.arg.paying
    \/ UpdateMember
    \/ DeleteMember
    \/ DocSize(get_gym) < MaxDocSize /\ PayFee
          /\ last'.key = Month(1) /\ last'.arg.amount = 50
    \/ DeleteFee /\ last'.key = Month(1)
    \/ UpdateFee /\ last'.key = Month(1)
    \/ DocSize(get_gym) < MaxDocSize /\ LogAttendance
    \/ DocSize(get_gym) < MaxDocSize /\ AddClass
          /\ last'.arg = PyStr(1) /\ Len(load_data(file').classes) <= 1
    \/ DocSize(get_gym) < MaxDocSize /\ BookClass /\ last'.key \in RaceClassIds
    \/ DocSize(get_gym) < MaxDocSize /\ AddExpense
          /\ last'.arg.amount = PyFloat(10) /\ Len(issued'.expenses) <= 1
    \/ DeleteExpense
    \/ ResetData
    \/ GetGymDetails
    \/ UpdateGymDetails

SpecStore == InitStore /\ [][NextStore]_vars

\* Members added with and without a trial, fees paid, joined dates edited,
\* member ids scanned up to the first visit logged, and the days going by.
NextCheckIn ==
    \/ AddMemberWith(CheckInForms)
    \/ UpdateMemberWith(CheckInEdits)
    \/ PayFee /\ last'.arg.amount = 0
    \/ ScanCheck /\ VisitsLogged(data'.attendance, Len(data'.attendance)) <= 1
    \/ Tick

SpecCheckIn == Init /\ [][NextCheckIn]_vars

\* Booking requests of one account, their file accesses interleaved, and the
\* classes they book into.
NextRaceBook ==
    \/ AddClass /\ Len(load_data(file').classes) <= MaxRaceClasses
    \/ \E p \in Workers : BeginBookClass(p)
    \/ \E p \in Workers : FinishBookClass(p)
    \/ \E p \in Workers : Respond(p)

SpecRaceBook == Init /\ [][NextRaceBook]_vars

\* ------------------------------------------------------------ properties
\* Helpers of the properties below.
Ids(list) == {list[i].id : i \in 1..Len(list)}
MemberIds(d) == DictKeys(d.members)
AddMemberDone == last.op = "add_member"
Max0(n) == IF n < 0 THEN 0 ELSE n

\* C1: the value add_member returns, handed unchanged to pay_fee(id, month, 50),
\* makes pay_fee return true, is_fee_paid(id, month) true, and
\* get_payment_status(month).paid hold the new member with amount 50.
C1_ReturnedIdPays ==
    (AddMemberDone /\ last.arg.paying) =>
        /\ last.ret = TRUE
        /\ is_fee_paid(data, last.id, last.key)
        /\ \E i \in 1..Len(get_payment_status(data, last.key).paid) :
              LET m == get_payment_status(data, last.key).paid[i]
              IN  m.id = str(last.id) /\ m.amount = last.arg.amount

\* C2: for an existing member, pay_fee succeeds and is_fee_paid(m, month) is true
\* right after it, whatever the amount (0 included); is_fee_paid(m, month) is
\* false right after delete_fee(m, month).
C2_PaidAfterPayUnpaidAfterDelete ==
    /\ (last.op = "pay_fee" /\ DictHas(data.members, last.id)) => last.ret = TRUE
    /\ (last.op = "pay_fee" /\ last.ret = TRUE) => is_fee_paid(data, last.id, last.key)
    /\ last.op = "delete_fee" => ~is_fee_paid(data, last.id, last.key)

\* C2 witness: a payment of amount 0 was recorded for a member.
C2_Witness ==
    /\ last.op = "pay_fee"
    /\ last.ret = TRUE
    /\ last.arg.amount = 0
    /\ DictHas(data.members, last.id)

\* The fee-history entries of a member for one month.
HistoryOf(d, member_id, month) ==
    LET monthTest(h) == h.month = month
    IN  SelectSeq(get_member_fee_history(d, member_id), monthTest)

\* C3: the fee history of a member never holds two entries for one month, and
\* right after a successful pay_fee it holds exactly one entry for that month,
\* with the amount, date and notes of that call.
C3_OneFeeRecordPerMonth ==
    /\ \A member_id \in IdInputs, month \in Months :
          Len(HistoryOf(data, member_id, month)) <= 1
    /\ (last.op = "pay_fee" /\ last.ret = TRUE) =>
          HistoryOf(data, last.id, last.key) =
              << [month |-> last.key,
                  amount |-> last.arg.amount,
                  paid_date |-> IF Truthy(last.arg.paid_date)
                                THEN last.arg.paid_date ELSE NowStamp,
                  notes |-> IF Truthy(last.arg.notes)
                            THEN last.arg.notes ELSE EmptyStr] >>

\* C3 witness: pay_fee has just succeeded for month 1 of a member whose fees
\* list month 1 before month 2: the record of month 1 was there before this
\* call (a new key goes last) and the call overwrote it.
C3_Witness ==
    /\ last.op = "pay_fee"
    /\ last.ret = TRUE
    /\ last.key = Month(1)
    /\ MapHas(data.fees, last.id)
    /\ Len(data.fees[last.id]) = 2
    /\ data.fees[last.id][1].k = Month(1)

\* The bookClass call of a step, seen from the document before it.
BookedBefore(gym, call) ==
    /\ call.op = "book_class"
    /\ gym.has_classes
    /\ DictHas(gym.classes, call.key)
    /\ InList(call.id, DictGet(gym.classes, call.key).attendees)

FullBefore(gym, call) ==
    /\ call.op = "book_class"
    /\ gym.has_classes
    /\ DictHas(gym.classes, call.key)
    /\ ~InList(call.id, DictGet(gym.classes, call.key).attendees)
    /\ Len(DictGet(gym.classes, call.key).attendees)
          >= DictGet(gym.classes, call.key).capacity

\* C4 as stated: every class has len(attendees) <= capacity, and book_class of
\* a member not yet booked into a class whose attendee count equals its capacity
\* returns false and changes neither document nor file.
C4_WithinCapacity ==
    [][ /\ \A i \in 1..Len(data'.classes) :
              Len(data'.classes[i].v.attendees) <= data'.classes[i].v.capacity
        /\ (/\ FullBefore(get_gym, last')
            /\ Len(DictGet(get_gym.classes, last'.key).attendees)
                  = DictGet(get_gym.classes, last'.key).capacity) =>
              (last'.ret = FALSE /\ data' = get_gym /\ file' = file) ]_vars

\* C4 as amended: every class has len(attendees) <= max(capacity, 0), and
\* book_class of a member not yet booked into a class whose attendee count has
\* reached its capacity returns false and changes neither document nor file.
C4_WithinCapacityAmended ==
    [][ /\ \A i \in 1..Len(data'.classes) :
              Len(data'.classes[i].v.attendees) <= Max0(data'.classes[i].v.capacity)
        /\ FullBefore(get_gym, last') =>
              (last'.ret = FALSE /\ data' = get_gym /\ file' = file) ]_vars

\* C4 witness: a class of capacity 1 holds one attendee and the booking of
\* another member has just been refused.
C4_Witness ==
    /\ last.op = "book_class"
    /\ last.ret = FALSE
    /\ data.has_classes
    /\ DictHas(data.classes, last.key)
    /\ DictGet(data.classes, last.key).capacity = 1
    /\ Len(DictGet(data.classes, last.key).attendees) = 1
    /\ ~InList(last.id, DictGet(data.classes, last.key).attendees)

\* C5: book_class of a member already in the attendee list returns true and
\* changes neither document nor file, also when the class is full; no attendee
\* list holds a member twice.
C5_BookingIdempotent ==
    [][ /\ \A i \in 1..Len(data'.classes) :
              LET attendees == data'.classes[i].v.attendees
              IN  \A a, b \in 1..Len(attendees) : attendees[a] = attendees[b] => a = b
        /\ BookedBefore(get_gym, last') =>
              (last'.ret = TRUE /\ data' = get_gym /\ file' = file) ]_vars

\* C5 witness: a full class of capacity 2 and a booking, answered true, of the
\* member who is first in its attendee list (so was booked before).
C5_Witness ==
    /\ last.op = "book_class"
    /\ last.ret = TRUE
    /\ data.has_classes
    /\ DictHas(data.classes, last.key)
    /\ DictGet(data.classes, last.key).capacity = 2
    /\ Len(DictGet(data.classes, last.key).attendees) = 2
    /\ DictGet(data.classes, last.key).attendees[1] = last.id

\* C6: for every month the paid and unpaid lists of get_payment_status are
\* disjoint, name no member twice, together name exactly the current members,
\* and a member is in paid iff is_fee_paid(member, month).
C6_PaymentStatusPartition ==
    \A month \in Months :
        LET status == get_payment_status(data, month)
        IN  /\ Ids(status.paid) \cap Ids(status.unpaid) = {}
            /\ Ids(status.paid) \cup Ids(status.unpaid) = MemberIds(data)
            /\ Cardinality(Ids(status.paid)) = Len(status.paid)
            /\ Cardinality(Ids(status.unpaid)) = Len(status.unpaid)
            /\ \A member_id \in MemberIds(data) :
                  member_id \in Ids(status.paid) <=> is_fee_paid(data, member_id, month)

\* C6 witness: for month 1 one member is paid and another is not.
C6_Witness ==
    /\ get_payment_status(data, Month(1)).paid # <<>>
    /\ get_payment_status(data, Month(1)).unpaid # <<>>

\* A step in which add_member ran (it always rewrites the file).
AddMemberStep == last'.op = "add_member" /\ file' # file

\* C7 as stated: every id add_member returns is greater than every id it
\* returned before, reset_data included among the operations in between.
C7_IdsNeverReused ==
    [][AddMemberStep => \A i \in issued.all : last'.id.v > i]_vars

\* C7 as amended: every id add_member returns is greater than every id it
\* returned since the last reset_data (a reset restarts the counter at 1).
C7_IdsIncreaseBetweenResets ==
    [][AddMemberStep => \A i \in issued.epoch : last'.id.v > i]_vars

\* C7 witness: member 1 was deleted and the next member got id 2.
C7_Witness ==
    /\ AddMemberDone
    /\ last.id = PyInt(2)
    /\ MemberIds(data) = {PyStr(2)}

\* C8: right after a successful delete_member(m), get_member(m) is absent, no
\* fee of m is left for any month, its fee history is empty, and m is in
\* neither list of get_payment_status.
C8_DeletedMemberGone ==
    (last.op = "delete_member" /\ last.ret = TRUE) =>
        /\ get_member(data, last.id) = None
        /\ ~MapHas(data.fees, last.id)
        /\ get_member_fee_history(data, last.id) = <<>>
        /\ \A month \in Months :
              /\ ~is_fee_paid(data, last.id, month)
              /\ last.id \notin Ids(get_payment_status(data, month).paid)
              /\ last.id \notin Ids(get_payment_status(data, month).unpaid)

\* C8 witness: a member who had fees was deleted while another member, with a
\* fee, stays.
C8_Witness ==
    /\ last.op = "delete_member"
    /\ last.ret = TRUE
    /\ last.arg.had_fees
    /\ \E member_id \in MemberIds(data) : is_fee_paid(data, member_id, Month(1))

\* The expiry date of an account is on or after the current date.
NotPastExpiry(user) ==
    ~IsNone(user.subscription_expiry) /\ user.subscription_expiry.v >= Today.v

\* C9: an unknown username is inactive, and a user whose plan is not
\* free_lifetime is active iff subscription_expiry is present and the expiry
\* date is on or after the current date, at every time of day.
C9_ActiveThroughExpiryDate ==
    \A username \in Usernames :
        IF ~DictHas(users, username)
        THEN ~is_subscription_active(users, username)
        ELSE DictGet(users, username).plan # "free_lifetime" =>
                (is_subscription_active(users, username)
                    <=> NotPastExpiry(DictGet(users, username)))

\* A step in which renew_subscription ran (the clock stands still in it).
RenewStep == last'.op = "renew_subscription" /\ now' = now

\* C10: renew_subscription(user, days) on an existing user returns true, sets
\* subscription_expiry to the current date plus days, appends exactly one
\* payment with status Completed to the end of the user's payments and, for
\* days >= 1, leaves the user active; on an unknown user it returns false and
\* changes no account.
C10_RenewSubscription ==
    [][ RenewStep =>
          IF DictHas(users, last'.id)
          THEN LET before == DictGet(users, last'.id)
                   after == DictGet(users', last'.id)
               IN  /\ last'.ret = TRUE
                   /\ after.subscription_expiry = Date(Today.v + last'.arg.days)
                   /\ Len(after.payments) = Len(before.payments) + 1
                   /\ SubSeq(after.payments, 1, Len(before.payments)) = before.payments
                   /\ after.payments[Len(after.payments)].status = "Completed"
                   /\ last'.arg.days >= 1 => is_subscription_active(users', last'.id)
          ELSE last'.ret = FALSE /\ users' = users ]_vars

\* C10 witness: a user who had paid before and was inactive has just renewed for
\* 30 days and is active.
C10_Witness ==
    /\ last.op = "renew_subscription"
    /\ last.ret = TRUE
    /\ last.arg.days = 30
    /\ ~last.arg.was_active
    /\ Len(PaymentsOf(users, last.id)) = 2
    /\ is_subscription_active(users, last.id)

\* ------------------------------------------------------------ C11
IsActive(username) == is_subscription_active(users, username)
IsFreeLifetime(us, username) ==
    DictHas(us, username) /\ DictGet(us, username).plan = "free_lifetime"

\* C11: an account created with the plan free_lifetime is active in every
\* later state and keeps the plan: a sign-up with a valid referral code gives
\* the plan free_lifetime, and no call (renew_subscription,
\* set_payment_pending, approve_manual_payment, a duplicate create_user) and
\* no passage of time takes the plan or the active subscription away.
C11_FreeLifetimeStaysActive ==
    [][ /\ \A username \in Usernames :
              IsFreeLifetime(users, username)
              => IsFreeLifetime(users', username) /\ IsActive(username)'
        /\ \A username \in Usernames :
              (last'.op = "create_user" /\ last'.id = username
                 /\ last'.ret /\ validate_referral(last'.arg))
              => IsFreeLifetime(users', username) /\ IsActive(username)'
      ]_vars

\* A free_lifetime account whose expiry date was overwritten by a renewal and
\* has passed, still active.
C11_Witness ==
    \E username \in Usernames :
        /\ IsFreeLifetime(users, username)
        /\ now > strptime(DictGet(users, username).subscription_expiry)
        /\ Len(DictGet(users, username).payments) > 0
        /\ IsActive(username)

\* ------------------------------------------------------------ C13
ApproveStep(username) ==
    /\ last'.op = "approve_manual_payment"
    /\ last'.id = username
    /\ now' = now
    /\ DictHas(users, username)

\* C13 (as claimed): approve_manual_payment on an existing account sets the
\* status to active, makes the subscription active, and extends the expiry:
\* the expiry after is never earlier than the expiry before, and an account
\* with days remaining keeps them on top of the 30 granted.
C13_ApprovalExtendsExpiry ==
    [][ \A username \in Usernames : ApproveStep(username) =>
          LET before == DictGet(users, username).subscription_expiry
              after == DictGet(users', username)
          IN  /\ after.subscription_status = Text("active")
              /\ IsActive(username)'
              /\ ~IsNone(before) => after.subscription_expiry.v >= before.v
              /\ (~IsNone(before) /\ before.v > Today.v)
                    => after.subscription_expiry.v = before.v + 30
      ]_vars

\* C13 (amended): approve_manual_payment on an existing account sets the
\* status to active and the expiry to today + 30 days whatever the expiry was
\* before, appends one completed Manual/JazzCash payment, and the
\* subscription is active right after the approval.
C13_ApprovalSetsExpiry ==
    [][ \A username \in Usernames : ApproveStep(username) =>
          LET before == DictGet(users, username)
              after == DictGet(users', username)
          IN  /\ last'.ret
              /\ after.subscription_status = Text("active")
              /\ after.subscription_expiry = DateAfter(30)
              /\ IsActive(username)'
              /\ after.payments =
                    Append(before.payments,
                           [date |-> NowStamp, amount |-> 2000,
                            method |-> "Manual/JazzCash", status |-> "Completed"])
      ]_vars

\* An approval that pulled the expiry of the account back.
C13_Witness ==
    /\ last.op = "approve_manual_payment"
    /\ last.ret
    /\ ~IsNone(last.arg.before)
    /\ DictGet(users, last.id).subscription_expiry.v < last.arg.before.v
    /\ IsActive(last.id)

\* ------------------------------------------------------------ C20
\* C20: an expense id is EXP{count + 1} of the expenses in the document, so
\* an add_expense that follows a delete_expense which removed an expense
\* gives the new expense an id that an earlier expense was given.
C20_ExpenseIdReusedAfterDelete ==
    [][ (last'.op = "add_expense" /\ last.op = "delete_expense" /\ last.ret)
        => /\ last'.id = Exp(Len(load_data(file).expenses) + 1)
           /\ InList(last'.id, issued.expenses)
      ]_vars

\* An expense added right after a deletion, its id given twice.
C20_Witness ==
    /\ last.op = "add_expense"
    /\ last.arg.after_delete
    /\ Cardinality({i \in 1..Len(issued.expenses) : issued.expenses[i] = last.id}) >= 2
    /\ DictHas(load_data(file).expenses, last.id)

\* ------------------------------------------------------------ C19
\* Both requests have answered, and each had loaded the document before the
\* other wrote it.
BothDoneOverlapped ==
    /\ \A p \in Workers : reqs[p].pc = "done"
    /\ \A p, q \in Workers : reqs[p].loaded = reqs[q].loaded

NamesOf(d) == {d.members[i].v.name : i \in 1..Len(d.members)}

\* C19: two add-member requests on one document that both load it before
\* either writes lose an update: both return an id, the same one, and the
\* file holds the document of the later writer, with one member more than
\* the document they loaded and not two.
C19_LostUpdate ==
    BothDoneOverlapped =>
        /\ \A p \in Workers : reqs[p].ret = PyInt(reqs[p].loaded.next_member_id)
        /\ \A p, q \in Workers : reqs[p].ret = reqs[q].ret
        /\ file = save_data(reqs[last.arg.worker].data)
        /\ Len(load_data(file).members) = Len(reqs[1].loaded.members) + 1
        /\ load_data(file).next_member_id = reqs[1].loaded.next_member_id + 1

\* Alice and Bob added at the same time, both answered with the same id, and
\* only the one written last is in the file.
C19_Witness ==
    /\ BothDoneOverlapped
    /\ reqs[1].name # reqs[2].name
    /\ reqs[1].ret = reqs[2].ret
    /\ \E p \in Workers :
          /\ last.arg.worker = p
          /\ reqs[p].name \in NamesOf(load_data(file))
          /\ \A q \in Workers \ {p} : reqs[q].name \notin NamesOf(load_data(file))

\* ------------------------------------------------------------ C12
\* C12: create_user on a username that exists returns false and leaves every
\* account as it was, whatever the password and the referral code; on a new
\* username it returns true and adds that account and nothing else.
C12_CreateUser ==
    [][ \A username \in WebNames :
          (last'.op = "signup" /\ last'.key = username) =>
             IF DictHas(users, username)
             THEN ~last'.arg.created /\ users' = users
             ELSE /\ last'.arg.created
                  /\ Len(users') = Len(users) + 1
                  /\ SubSeq(users', 1, Len(users)) = users
                  /\ users'[Len(users')].k = username
                  /\ users'[Len(users')].v.password = hash_password(last'.arg.password)
                  /\ users'[Len(users')].v.payments = <<>>
      ]_vars

\* A sign-up refused for a username that exists, with another password and
\* a valid referral code, beside a second account; the account has kept its
\* password, its plan and its payment.
C12_Witness ==
    /\ last.op = "signup"
    /\ ~last.arg.created
    /\ Len(users) = 2
    /\ validate_referral(last.arg.code)
    /\ DictGet(users, last.key).password # hash_password(last.arg.password)
    /\ DictGet(users, last.key).plan = "standard"
    /\ Len(DictGet(users, last.key).payments) > 0

\* ------------------------------------------------------------ C14
\* C14: two registered usernames have two gym files, and a request of the
\* session's account leaves the document every other registered account
\* reads as it was.
C14_AccountsIsolated ==
    [][ /\ \A u, v \in WebNames :
              (u # v /\ DictHas(users, u) /\ DictHas(users, v))
              => get_user_data_file(u) # get_user_data_file(v)
        /\ \A v \in WebNames :
              (DictHas(users, v) /\ session.logged_in /\ session.username # v)
              => load_data(DiskFile(disk', get_user_data_file(v)))
                 = load_data(DiskFile(disk, get_user_data_file(v)))
      ]_vars

\* ------------------------------------------------------------ C15
GymSections == {"members", "fees", "expenses", "attendance", "classes"}
Endpoint(op) == IF op \in {"signup", "login"} THEN "auth" ELSE op
InactiveSession ==
    session.logged_in /\ ~is_subscription_active(users, session.username)

C16_InactiveCanGoPending ==
    [][ ( /\ last'.op = "manual_payment"
          /\ InactiveSession
          /\ DictHas(users, session.username)
          /\ DictGet(users, session.username).plan = "standard" )
        => /\ IsPending(DictGet(users', session.username))
           /\ \E i \in 1..Len(get_pending_approvals(users')) :
                 get_pending_approvals(users')[i].username = session.username
      ]_vars

\* ------------------------------------------------------------ C17
\* C17: the subscription of a standard account becomes active only in the
\* step of a payment_success request that follows a completed checkout of
\* that account, or of an administrator's approval of that account.
C17_InactiveUntilPayment ==
    [][ \A u \in WebNames :
          ( /\ DictHas(users', u)
            /\ DictGet(users', u).plan = "standard"
            /\ ~is_subscription_active(users, u)
            /\ is_subscription_active(users', u) )
          => \/ /\ last'.op = "payment_success"
                /\ last'.id = u
                /\ last'.arg.completed_checkout
             \/ /\ last'.op = "approve_payment"
                /\ last'.key = u
                /\ session.username \in ADMIN_EMAILS
      ]_vars

\* ------------------------------------------------------------ C18
\* C18: a request to approve a payment changes an account only when the
\* username of the session is in ADMIN_EMAILS, and then only the account
\* named in the request; any other requester, logged in or not, leaves
\* every account as it was.
C18_ApprovalOnlyByAdmins ==
    [][ last'.op = "approve_payment" =>
          /\ session.username \notin ADMIN_EMAILS
                => users' = users /\ last'.ret # "redirect:super_admin"
          /\ \A u \in WebNames \ {last'.key} :
                DictHas(users, u) => DictGet(users', u) = DictGet(users, u)
      ]_vars

\* An approval asked for by a paying account that is no administrator,
\* refused by the handler; the account named is still pending.
C18_Witness ==
    /\ last.op = "approve_payment"
    /\ last.arg.handler
    /\ last.ret = "redirect:dashboard"
    /\ session.logged_in
    /\ session.username \notin ADMIN_EMAILS
    /\ DictHas(users, last.key)
    /\ IsPending(DictGet(users, last.key))

\* ------------------------------------------------------------ C25
\* C25: an add_expense that returns true leaves one expense more in the
\* document than there was, and every expense stored before it as it was.
C25_AddExpenseKeepsExpenses ==
    [][ (last'.op = "add_expense" /\ last'.ret) =>
          LET before == load_data(file).expenses
              after == load_data(file').expenses
          IN  /\ Len(after) = Len(before) + 1
              /\ \A i \in 1..Len(before) :
                    /\ DictHas(after, before[i].k)
                    /\ DictGet(after, before[i].k) = before[i].v
      ]_vars

\* ------------------------------------------------------------ C28
\* C28: an account listed by get_pending_approvals has no active
\* subscription.
C28_PendingExcludesActive ==
    \A i \in 1..Len(get_pending_approvals(users)) :
        ~is_subscription_active(users, get_pending_approvals(users)[i].username)

\* ------------------------------------------------------------ C27
NoDuplicates(l) == \A a, b \in 1..Len(l) : l[a] = l[b] => a = b
PersistedClasses == load_data(file).classes

\* C27 (as claimed): whatever the interleaving of the booking requests,
\* every class of the document in the file has len(attendees) <= capacity
\* and no attendee twice.
C27_PersistedWithinCapacity ==
    \A i \in 1..Len(PersistedClasses) :
        /\ Len(PersistedClasses[i].v.attendees) <= PersistedClasses[i].v.capacity
        /\ NoDuplicates(PersistedClasses[i].v.attendees)

\* C27 (amended): whatever the interleaving of the booking requests, every
\* class of the document in the file has len(attendees) <= max(capacity, 0)
\* and no attendee twice.
C27_PersistedWithinCapacityAmended ==
    \A i \in 1..Len(PersistedClasses) :
        /\ Len(PersistedClasses[i].v.attendees) <= Max0(PersistedClasses[i].v.capacity)
        /\ NoDuplicates(PersistedClasses[i].v.attendees)

\* Two members booked at the same time into a class of capacity 1: both
\* requests answered with success, one attendee in the file.
C27_Witness ==
    /\ \A p \in Workers : reqs[p].pc = "done" /\ reqs[p].ret = TRUE
    /\ reqs[1].arg.class_id = reqs[2].arg.class_id
    /\ reqs[1].arg.member_id # reqs[2].arg.member_id
    /\ DictHas(PersistedClasses, reqs[1].arg.class_id)
    /\ DictGet(PersistedClasses, reqs[1].arg.class_id).capacity = 1
    /\ Len(DictGet(PersistedClasses, reqs[1].arg.class_id).attendees) = 1

\* ------------------------------------------------------------ C23
\* C23: with requests executed one at a time, the document in the file equals
\* the document in memory whenever a store operation has returned.
C23_PersistedEqualsMemory == data = load_data(file)

\* get_gym_details has filled in the defaults missing from an older file.
C23_Witness ==
    /\ last.op = "get_gym_details"
    /\ last.arg.filled
    /\ Len(data.members) > 0
    /\ file.exists
    /\ file.doc.has_gym_details
    /\ file.doc.gym_details.has_currency

\* ------------------------------------------------------------ C22
\* The store operations that answer False.
RefusingOps ==
    {"pay_fee", "log_attendance", "delete_member", "delete_expense",
     "delete_fee", "update_fee", "update_member", "book_class"}

\* C22: a store operation that returns False leaves the document as the
\* manager loaded it, in memory and in the file.
C22_FalseLeavesDocument ==
    [][ (last'.op \in RefusingOps /\ last'.ret = FALSE) =>
            (data' = load_data(file) /\ file' = file) ]_vars

\* A booking refused because the class is full, the document unchanged.
C22_Witness ==
    /\ last.op = "book_class"
    /\ last.ret = FALSE
    /\ DictHas(data.classes, last.key)
    /\ Len(DictGet(data.classes, last.key).attendees) = 1
    /\ ~InList(last.id, DictGet(data.classes, last.key).attendees)
    /\ data = load_data(file)

\* ------------------------------------------------------------ C21
AttendanceOf(d, member_id) ==
    IF d.has_attendance /\ DictHas(d.attendance, member_id)
    THEN DictGet(d.attendance, member_id)
    ELSE <<>>

IsPrefix(a, b) == Len(a) <= Len(b) /\ SubSeq(b, 1, Len(a)) = a

\* What log_attendance(m) does to the lists: one entry more in the list of m
\* and no other list changed when it returns True, nothing appended when it
\* returns False.
LogAttendanceStep ==
    last'.op = "log_attendance" =>
        \A m \in IdInputs :
            AttendanceOf(load_data(file'), m) =
                IF last'.ret /\ m = last'.id
                THEN Append(AttendanceOf(load_data(file), m), Stamp(now))
                ELSE AttendanceOf(load_data(file), m)

\* C21 (as claimed): across every operation of the store the attendance list
\* of each member before the operation is a prefix of the list after it, and
\* log_attendance appends exactly one entry or, for an unknown member, none.
C21_AppendOnly ==
    [][ /\ \A m \in IdInputs :
              IsPrefix(AttendanceOf(load_data(file), m),
                       AttendanceOf(load_data(file'), m))
        /\ LogAttendanceStep ]_vars

\* C21 (amended): across every operation of the store other than reset_data
\* the attendance list of each member before the operation is a prefix of
\* the list after it, and log_attendance appends exactly one entry or, for
\* an unknown member, none.
C21_AppendOnlyButReset ==
    [][ /\ last'.op # "reset_data" =>
              \A m \in IdInputs :
                  IsPrefix(AttendanceOf(load_data(file), m),
                           AttendanceOf(load_data(file'), m))
        /\ LogAttendanceStep ]_vars

\* A member checked in a second time on the same day: two entries.
C21_Witness ==
    /\ last.op = "log_attendance"
    /\ last.ret = TRUE
    /\ Len(AttendanceOf(load_data(file), last.id)) = 2
    /\ AttendanceOf(load_data(file), last.id)[1] = AttendanceOf(load_data(file), last.id)[2]

\* ------------------------------------------------------------ C26
\* C26: every member id in the attendee list of a class and every member id
\* with an attendance log is the id of a member of the document.
C26_ReferentialIntegrity ==
    LET d == load_data(file)
    IN  /\ \A i \in 1..Len(d.classes) :
              \A j \in 1..Len(d.classes[i].v.attendees) :
                  DictHas(d.members, d.classes[i].v.attendees[j])
        /\ \A i \in 1..Len(d.attendance) : DictHas(d.members, d.attendance[i].k)

\* ------------------------------------------------------------ C24
\* What a scan does, the end of the trial given as a parameter: an id that is
\* no member's changes nothing; a member is granted access, with one
\* attendance entry appended, iff the fee of the current month is paid; an
\* unpaid trial member gets trial access, with nothing appended, iff today is
\* not after the end of the trial, and is denied after it; an unpaid member
\* without a trial is denied.
ScanStep(trial_end(_)) ==
    (now' = now /\ last'.op = "scan_check") =>
        LET before == load_data(file)
            after == load_data(file')
            m == last'.id
            member == DictGet(before.members, m)
            paid == is_fee_paid(before, m, CurrentMonth)
        IN  IF ~DictHas(before.members, m)
            THEN after = before /\ file' = file
            ELSE /\ (last'.ret = "ACCESS GRANTED") <=> paid
                 /\ paid => after = [before EXCEPT
                                 !.has_attendance = TRUE,
                                 !.attendance =
                                     DictSet(before.attendance, m,
                                             Append(AttendanceOf(before, m), Stamp(now)))]
                 /\ ~paid => after = before
                 /\ (~paid /\ member.is_trial) =>
                        /\ (last'.ret = "TRIAL") <=> (Today.v <= trial_end(member).v)
                        /\ (last'.ret = "ACCESS DENIED - TRIAL EXPIRED")
                               <=> (Today.v > trial_end(member).v)
                 /\ (~paid /\ ~member.is_trial) =>
                        last'.ret = "ACCESS DENIED - FEE PENDING"

JoinedPlusTrial(member) == Date(member.joined_date.v + TrialDays)
TrialEndDate(member) == member.trial_end_date

\* add_member sets the trial_end_date of a trial member to its joined date
\* + 3 days.
AddTrialStep ==
    (now' = now /\ last'.op = "add_member") =>
        LET member == DictGet(load_data(file').members, str(last'.id))
        IN  member.is_trial => member.trial_end_date = JoinedPlusTrial(member)

\* What tells a request from a step that changes nothing: the file, the
\* document, the clock and the call made.
RequestVars == <<file, data, now, last.op, last.id, last.key>>

\* C24 (as claimed): a scan decides as described, the trial of a member
\* ending on its joined date + 3 days.
C24_ScanByJoinedDate == [][ScanStep(JoinedPlusTrial)]_RequestVars

\* C24 (amended): a scan decides as described, the trial of a member ending
\* on its trial_end_date, which add_member set to the joined date given then
\* + 3 days.
C24_ScanByTrialEndDate == [][ScanStep(TrialEndDate) /\ AddTrialStep]_RequestVars

\* A trial member scanned after the end of the trial.
C24_Witness ==
    /\ last.op = "scan_check"
    /\ last.ret = "ACCESS DENIED - TRIAL EXPIRED"
    /\ DictHas(data.members, last.id)
    /\ DictGet(data.members, last.id).is_trial
    /\ Today.v > DictGet(data.members, last.id).trial_end_date.v
====
